---- MODULE Spec2Model ----
(***************************************************************************)
(* A model of the data pipeline, the training loop and the zero-shot       *)
(* evaluation of vlhub (src/training/data.py, train.py, zero_shot.py).     *)
(*                                                                         *)
(* Strings are sequences of one-character tokens, <<"c","a","t">>.  Each   *)
(* part of the program has its own specification (SpecCipher, SpecDispatch,*)
(* ...): its Init draws the inputs, its actions are the steps of the code, *)
(* and the variables of the other parts stay at their idle values.         *)
(***************************************************************************)
EXTENDS Integers, Sequences, FiniteSets, TLC

VARIABLES
    \* shift_cipher (data.py 520-530)
    sc_s, sc_shift, sc_enc, sc_dec, sc_pc,
    \* get_dataset_fn (data.py 1434-1453)
    gd_path, gd_type, gd_result, gd_pc,
    \* SharedEpoch / DataInfo.set_epoch / detshuffle2 / ResampledShards2 and the
    \* dataloader workers (data.py 451-472, 933-1001; train.py 130-133, 172)
    shared_epoch,   \* SharedEpoch.shared_epoch.value
    ep_cfg,         \* [seed, resampled, ramping]: args.seed, resampling, args.ramping
    ep_epoch,       \* the epoch argument of the running train_one_epoch call
    ep_last,        \* the last epoch of the run (args.epochs - 1)
    ep_main,        \* where the training process is
    ep_wpc,         \* per worker: where the worker process is
    ep_wlocal,      \* per worker: the stage's own epoch counter (self.epoch, an int)
    ep_wepoch,      \* per worker: the epoch its current pass uses
    ep_wseed,       \* per worker: the seed given to rng.seed in its current pass
    ep_wbatches,    \* per worker: batches yielded in the current iteration
    \* group_by_keys_nothrow (data.py 881-906)
    gk_data,        \* the tar entries handed to the generator (filesamples)
    gk_i,           \* how many of them the for loop has taken
    gk_has,         \* current_sample is not None
    gk_current,     \* current_sample: [key, url, fields]
    gk_out,         \* the samples yielded so far
    gk_raised,      \* an exception left the generator
    gk_pc,          \* "loop", "done"
    \* get_wds_dataset, lines 1069-1090: the sample count
    wc_args,        \* [schema, schemas, train_num_samples, val_num_samples]
    wc_is_train,    \* the is_train parameter
    wc_dir,         \* the shard directory: [shards, sizes, len]
    wc_num_samples, \* num_samples
    wc_num_shards,  \* num_shards
    wc_pc,          \* "start", "sized", "counted", "RuntimeError"
    \* get_wds_dataset, lines 1081-1198: the pipeline and the epoch length
    wd_args,        \* [batch_size, world_size, workers, sim_clr,
                    \*  dataset_resampled, text_filters, integer_labels]
    wd_is_train,    \* the is_train parameter
    wd_floor,       \* the floor parameter
    wd_count,       \* num_samples as line 1090 leaves it
    wd_num_shards,  \* num_shards
    wd_pipeline,    \* the stages of the pipeline, in order
    wd_with_epoch,  \* the length given to dataset.with_epoch, None without
    wd_num_batches, \* dataloader.num_batches
    wd_num_samples, \* dataloader.num_samples
    wd_pc,          \* "counted", "built", "returned", "AssertionError"
    \* the text stages of the pipeline (data.py 1138-1142) on one sample
    fl_args,        \* [ds_filter, csv_scrambled, ds_cipher, simplecaptions,
                    \*  strict, shift_cipher, integer_labels, multiclass,
                    \*  metacaptions]
    fl_text,        \* the sample's caption as clean_captions leaves it
    fl_synset,      \* what the call of synset_ds returned
    fl_value,       \* sample["text"] after the map_dict stage
    fl_pc,          \* "renamed", "mapped", "skipped", "selected", "rejected"
    \* one call of zero_shot_eval (zero_shot.py 377-571)
    zs_data,        \* the keys of the data dict
    zs_args,        \* [zeroshot_frequency, epochs, caption_subset, isint,
                    \*  syn_filter, def_class]
    zs_epoch,       \* the epoch argument
    zs_results,     \* the keys of the returned results
    zs_scored,      \* benchmark -> the class names its classifier was built of
    zs_pc,          \* "called", "returned", "NotImplementedError"
    \* one call of train_one_epoch (train.py 56-333)
    tr_args,        \* [sim_clr, integer_labels, iqe, alignunif, gc, alt,
                    \*  horovod, precision, distributed, dry_run, ramping,
                    \*  tune]
    tr_sim_clr,     \* the sim_clr parameter of the call
    tr_num_batches, \* the batches the train loader yields
    tr_loss,        \* the loss object built at lines 62-103
    tr_tuned,       \* the ImageNet tuning loop of lines 106-128 has run
    tr_gc,          \* the GradCache built at lines 151-165: its fp16, or "none"
    tr_i,           \* main-loop batches taken so far
    tr_batch,       \* the last batch: [forward, loss_fn on it]
    tr_pc,          \* "called", "loop", "returned", the exception raised
    \* one ResampledShards2 object (data.py 963-1001)
    rs_urls,        \* self.urls: the expanded url list
    rs_nshards,     \* self.nshards
    rs_self,        \* [deterministic, epoch_kind, shared]: self.deterministic,
                    \*  what self.epoch is, the value of the SharedEpoch
    rs_epoch,       \* self.epoch when it is an int
    rs_seed,        \* the seed last given to self.rng.seed, None without
    rs_iters,       \* how many times __iter__ has been called
    rs_out,         \* what the running iterator has yielded
    rs_pc           \* "built", "iterating", "exhausted"

vars_cipher == <<sc_s, sc_shift, sc_enc, sc_dec, sc_pc>>
vars_dispatch == <<gd_path, gd_type, gd_result, gd_pc>>
vars_epoch == <<shared_epoch, ep_cfg, ep_epoch, ep_last, ep_main, ep_wpc,
                ep_wlocal, ep_wepoch, ep_wseed, ep_wbatches>>
vars_group == <<gk_data, gk_i, gk_has, gk_current, gk_out, gk_raised, gk_pc>>
vars_count == <<wc_args, wc_is_train, wc_dir, wc_num_samples, wc_num_shards, wc_pc>>
vars_wds == <<wd_args, wd_is_train, wd_floor, wd_count, wd_num_shards,
              wd_pipeline, wd_with_epoch, wd_num_batches, wd_num_samples, wd_pc>>
vars_filter == <<fl_args, fl_text, fl_synset, fl_value, fl_pc>>
vars_zs == <<zs_data, zs_args, zs_epoch, zs_results, zs_scored, zs_pc>>
vars_train ==
    <<tr_args, tr_sim_clr, tr_num_batches, tr_loss, tr_tuned, tr_gc, tr_i,
      tr_batch, tr_pc>>
vars_resample ==
    <<rs_urls, rs_nshards, rs_self, rs_epoch, rs_seed, rs_iters, rs_out, rs_pc>>
vars == <<vars_cipher, vars_dispatch, vars_epoch, vars_group, vars_count,
          vars_wds, vars_filter, vars_zs, vars_train, vars_resample>>

\* What each part leaves alone: the variables of the other parts.
others_cipher ==
    <<vars_dispatch, vars_epoch, vars_group, vars_count,
      vars_wds, vars_filter, vars_zs, vars_train, vars_resample>>
others_dispatch ==
    <<vars_cipher, vars_epoch, vars_group, vars_count,
      vars_wds, vars_filter, vars_zs, vars_train, vars_resample>>
others_epoch ==
    <<vars_cipher, vars_dispatch, vars_group, vars_count,
      vars_wds, vars_filter, vars_zs, vars_train, vars_resample>>
others_group ==
    <<vars_cipher, vars_dispatch, vars_epoch, vars_count,
      vars_wds, vars_filter, vars_zs, vars_train, vars_resample>>
others_count ==
    <<vars_cipher, vars_dispatch, vars_epoch, vars_group,
      vars_wds, vars_filter, vars_zs, vars_train, vars_resample>>
others_wds ==
    <<vars_cipher, vars_dispatch, vars_epoch, vars_group,
      vars_count, vars_filter, vars_zs, vars_train, vars_resample>>
others_filter ==
    <<vars_cipher, vars_dispatch, vars_epoch, vars_group,
      vars_count, vars_wds, vars_zs, vars_train, vars_resample>>
others_zs ==
    <<vars_cipher, vars_dispatch, vars_epoch, vars_group,
      vars_count, vars_wds, vars_filter, vars_train, vars_resample>>
others_train ==
    <<vars_cipher, vars_dispatch, vars_epoch, vars_group,
      vars_count, vars_wds, vars_filter, vars_zs, vars_resample>>
others_resample ==
    <<vars_cipher, vars_dispatch, vars_epoch, vars_group,
      vars_count, vars_wds, vars_filter, vars_zs, vars_train>>

\* The idle values of each part, held while another part's specification runs.
IdleCipher ==
    /\ sc_s = <<>> /\ sc_shift = 0 /\ sc_enc = <<>> /\ sc_dec = <<>>
    /\ sc_pc = "idle"

IdleDispatch ==
    /\ gd_path = <<>> /\ gd_type = <<>> /\ gd_result = "none" /\ gd_pc = "idle"

IdleEpoch ==
    /\ shared_epoch = 0 /\ ep_cfg = <<>> /\ ep_epoch = 0 /\ ep_last = 0
    /\ ep_main = "idle" /\ ep_wpc = <<>> /\ ep_wlocal = <<>> /\ ep_wepoch = <<>>
    /\ ep_wseed = <<>> /\ ep_wbatches = <<>>

NoSample == [key |-> <<>>, url |-> "", fields |-> <<>>]

IdleGroup ==
    /\ gk_data = <<>> /\ gk_i = 0 /\ gk_has = FALSE /\ gk_current = NoSample
    /\ gk_out = <<>> /\ gk_raised = FALSE /\ gk_pc = "idle"

IdleCount ==
    /\ wc_args = <<>> /\ wc_is_train = FALSE /\ wc_dir = <<>>
    /\ wc_num_samples = 0 /\ wc_num_shards = 0 /\ wc_pc = "idle"

IdleWds ==
    /\ wd_args = <<>> /\ wd_is_train = FALSE /\ wd_floor = FALSE /\ wd_count = 0
    /\ wd_num_shards = 0 /\ wd_pipeline = <<>> /\ wd_with_epoch = 0
    /\ wd_num_batches = 0 /\ wd_num_samples = 0 /\ wd_pc = "idle"

\* The values a caption can become: a string, a bool, a tensor of labels.
StrV(x) == [kind |-> "str", str |-> x, flag |-> FALSE, label |-> <<>>]
BoolV(b) == [kind |-> "bool", str |-> <<>>, flag |-> b, label |-> <<>>]
TensorV(l) == [kind |-> "tensor", str |-> <<>>, flag |-> FALSE, label |-> l]

IdleFilter ==
    /\ fl_args = <<>> /\ fl_text = <<>> /\ fl_synset = StrV(<<>>)
    /\ fl_value = StrV(<<>>) /\ fl_pc = "idle"

IdleZS ==
    /\ zs_data = {} /\ zs_args = <<>> /\ zs_epoch = 0 /\ zs_results = {}
    /\ zs_scored = <<>> /\ zs_pc = "idle"

NoBatch == [forward |-> "none", loss_fn |-> "none"]

IdleTrain ==
    /\ tr_args = <<>> /\ tr_sim_clr = FALSE /\ tr_num_batches = 0
    /\ tr_loss = "none" /\ tr_tuned = FALSE /\ tr_gc = "none" /\ tr_i = 0
    /\ tr_batch = NoBatch /\ tr_pc = "idle"

IdleResample ==
    /\ rs_urls = <<>> /\ rs_nshards = 0 /\ rs_self = <<>> /\ rs_epoch = 0
    /\ rs_seed = 0 /\ rs_iters = 0 /\ rs_out = <<>> /\ rs_pc = "idle"

\* ------------------------------------------------------------------ bounds
MaxStrLen == 2
MaxShift == 27
MaxPathLen == 5
NumWorkers == 2
MaxStartEpoch == 1
MaxEpochs == 2
WorkerBatches == 2
TorchBaseSeed == 100
MaxEntries == 4
MaxShards == 3
MaxSamples == 4
MaxCount == 9
MaxBatchSize == 2
MaxWorldSize == 2
MaxWorkers == 2
MaxWords == 2
MaxLoaders == 3
MaxFrequency == 2
MaxEvalEpochs == 2
MaxBatches == 2
MaxUrls == 2
MaxNShards == 2
MaxIterations == 2

\* ----------------------------------------------------------- string helpers
\* All strings over the character set chars, of length at most n.
StringsUpTo(chars, n) == UNION {[1..k -> chars] : k \in 0..n}

RECURSIVE Join(_, _)
\* sep.join(words)
Join(words, sep) ==
    IF words = <<>> THEN <<>>
    ELSE IF Len(words) = 1 THEN words[1]
    ELSE words[1] \o sep \o Join(Tail(words), sep)

\* the positions where sep starts in s (sep does not overlap itself: the
\* code splits on " ", "." and ", ")
SepStarts(s, sep) ==
    {i \in 1..Len(s) :
        i + Len(sep) - 1 <= Len(s) /\ SubSeq(s, i, i + Len(sep) - 1) = sep}

\* str.split(sep): the pieces between one sep and the next
Split(s, sep) ==
    LET starts == SepStarts(s, sep)
        nth(k) == CHOOSE i \in starts :
                    Cardinality({q \in starts : q < i}) = k - 1
    IN [k \in 1..(Cardinality(starts) + 1) |->
            SubSeq(s,
                   IF k = 1 THEN 1 ELSE nth(k - 1) + Len(sep),
                   IF k = Cardinality(starts) + 1 THEN Len(s)
                   ELSE nth(k) - 1)]

RECURSIVE ReplaceFrom(_, _, _, _)
\* str.replace(old, new) for a non-empty old, scanning s from position i
ReplaceFrom(s, old, new, i) ==
    IF i > Len(s) THEN <<>>
    ELSE IF i + Len(old) - 1 <= Len(s) /\ SubSeq(s, i, i + Len(old) - 1) = old
         THEN new \o ReplaceFrom(s, old, new, i + Len(old))
    ELSE <<s[i]>> \o ReplaceFrom(s, old, new, i + 1)

\* str.replace(old, new); an empty old puts new around every character
Replace(s, old, new) ==
    IF old = <<>>
    THEN new \o Join([i \in 1..Len(s) |-> <<s[i]>> \o new], <<>>)
    ELSE ReplaceFrom(s, old, new, 1)

\* str.find(needle) == -1 is ~Contains(hay, needle)
Contains(hay, needle) ==
    \E i \in 1..(Len(hay) + 1) :
        /\ i + Len(needle) - 1 <= Len(hay)
        /\ SubSeq(hay, i, i + Len(needle) - 1) = needle

\* ------------------------------------------------------------ shift_cipher
Lower == <<"a","b","c","d","e","f","g","h","i","j","k","l","m",
           "n","o","p","q","r","s","t","u","v","w","x","y","z">>
Upper == <<"A","B","C","D","E","F","G","H","I","J","K","L","M",
           "N","O","P","Q","R","S","T","U","V","W","X","Y","Z">>

\* Characters outside ASCII that str.isalpha() accepts: a lower-case letter
\* (U+00E9), an upper-case letter (U+00C9) and a letter with no case (U+4E2D).
NonAsciiLower == {"e_acute"}
NonAsciiUpper == {"E_acute"}
NonAsciiUncased == {"cjk_zhong"}

IndexIn(table, c) == CHOOSE i \in 1..Len(table) : table[i] = c
InTable(table, c) == \E i \in 1..Len(table) : table[i] = c

\* ord(c)
ord(c) ==
    IF InTable(Lower, c) THEN 96 + IndexIn(Lower, c)
    ELSE IF InTable(Upper, c) THEN 64 + IndexIn(Upper, c)
    ELSE CASE c = " " -> 32
           [] c = "0" -> 48
           [] c = "E_acute" -> 201
           [] c = "e_acute" -> 233
           [] c = "cjk_zhong" -> 20013

\* chr(n), for the code points the cipher can produce or leave alone
chr(n) ==
    IF n \in 97..122 THEN Lower[n - 96]
    ELSE IF n \in 65..90 THEN Upper[n - 64]
    ELSE CASE n = 32 -> " "
           [] n = 48 -> "0"
           [] n = 201 -> "E_acute"
           [] n = 233 -> "e_acute"
           [] n = 20013 -> "cjk_zhong"

\* c.isalpha()
isalpha(c) ==
    InTable(Lower, c) \/ InTable(Upper, c)
        \/ c \in NonAsciiLower \cup NonAsciiUpper \cup NonAsciiUncased

\* c.islower()
islower(c) == InTable(Lower, c) \/ c \in NonAsciiLower

\* The body of the loop of shift_cipher for one character.
shift_char(c, shift) ==
    IF isalpha(c)
    THEN LET ordshift == IF islower(c) THEN 97 ELSE 65
         IN chr(((ord(c) - ordshift + shift) % 26) + ordshift)
    ELSE c

RECURSIVE shift_cipher(_, _)
shift_cipher(s, shift) ==
    IF s = <<>> THEN <<>>
    ELSE <<shift_char(Head(s), shift)>> \o shift_cipher(Tail(s), shift)

CipherChars == {"a", "z", "A", "Z", " ", "0", "e_acute", "cjk_zhong"}

InitCipher ==
    /\ IdleDispatch /\ IdleEpoch /\ IdleGroup /\ IdleCount
    /\ IdleWds /\ IdleFilter /\ IdleZS /\ IdleTrain /\ IdleResample
    /\ sc_s \in StringsUpTo(CipherChars, MaxStrLen)
    /\ sc_shift \in (0 - MaxShift)..MaxShift
    /\ sc_enc = <<>> /\ sc_dec = <<>>
    /\ sc_pc = "start"

\* encoded = shift_cipher(s, k)
Encode ==
    /\ sc_pc = "start"
    /\ sc_enc' = shift_cipher(sc_s, sc_shift)
    /\ sc_pc' = "encoded"
    /\ UNCHANGED <<sc_s, sc_shift, sc_dec>>
    /\ UNCHANGED others_cipher

\* decoded = shift_cipher(encoded, -k)
Decode ==
    /\ sc_pc = "encoded"
    /\ sc_dec' = shift_cipher(sc_enc, 0 - sc_shift)
    /\ sc_pc' = "decoded"
    /\ UNCHANGED <<sc_s, sc_shift, sc_enc>>
    /\ UNCHANGED others_cipher

NextCipher == Encode \/ Decode

\* C6 (as claimed): for every string s and every integer shift k,
\* shift_cipher(shift_cipher(s, k), -k) = s.  Refuted by a letter outside
\* ASCII: c.isalpha() accepts it and the arithmetic maps it into a..z / A..Z.
C6_RoundTrip == sc_pc = "decoded" => sc_dec = sc_s

\* ------------------------------------------------------------ get_dataset_fn
PathChars == {".", "c", "s", "v", "t", "a", "r"}
DatasetTypes ==
    {<<"w","e","b","d","a","t","a","s","e","t">>, <<"c","s","v">>,
     <<"i","m","a","g","e","f","o","l","d","e","r">>,
     <<"s","y","n","t","h","e","t","i","c">>, <<"a","u","t","o">>,
     <<"t","s","v">>, <<"t","a","r">>, <<>>}

\* data_path.split('.')[-1]
LastPiece(path) == LET p == Split(path, <<".">>) IN p[Len(p)]

\* get_dataset_fn with 'tsv' left out of the extensions of the CSV builder.
get_dataset_fn_no_tsv(data_path, dataset_type) ==
    IF dataset_type = <<"w","e","b","d","a","t","a","s","e","t">>
        THEN "get_wds_dataset"
    ELSE IF dataset_type \in {<<"c","s","v">>}
        THEN "get_csv_dataset"
    ELSE IF dataset_type = <<"i","m","a","g","e","f","o","l","d","e","r">>
        THEN "get_imagefolder_dataset"
    ELSE IF dataset_type = <<"s","y","n","t","h","e","t","i","c">>
        THEN "get_synthetic_dataset"
    ELSE IF dataset_type = <<"a","u","t","o">>
        THEN LET ext == LastPiece(data_path)
             IN IF ext \in {<<"c","s","v">>}
                    THEN "get_csv_dataset"
                ELSE IF ext \in {<<"t","a","r">>}
                    THEN "get_wds_dataset"
                ELSE "ValueError"
    ELSE "ValueError"

get_dataset_fn(data_path, dataset_type) ==
    IF dataset_type = <<"w","e","b","d","a","t","a","s","e","t">>
        THEN "get_wds_dataset"
    ELSE IF dataset_type \in {<<"c","s","v">>}
        THEN "get_csv_dataset"
    ELSE IF dataset_type = <<"i","m","a","g","e","f","o","l","d","e","r">>
        THEN "get_imagefolder_dataset"
    ELSE IF dataset_type = <<"s","y","n","t","h","e","t","i","c">>
        THEN "get_synthetic_dataset"
    ELSE IF dataset_type = <<"a","u","t","o">>
        THEN LET ext == LastPiece(data_path)
             IN IF ext \in {<<"c","s","v">>, <<"t","s","v">>}
                    THEN "get_csv_dataset"
                ELSE IF ext \in {<<"t","a","r">>}
                    THEN "get_wds_dataset"
                ELSE "ValueError"
    ELSE "ValueError"

InitDispatch ==
    /\ IdleCipher /\ IdleEpoch /\ IdleGroup /\ IdleCount
    /\ IdleWds /\ IdleFilter /\ IdleZS /\ IdleTrain /\ IdleResample
    /\ gd_path \in StringsUpTo(PathChars, MaxPathLen)
    /\ gd_type \in DatasetTypes
    /\ gd_result = "none"
    /\ gd_pc = "start"

CallGetDatasetFn ==
    /\ gd_pc = "start"
    /\ gd_result' = get_dataset_fn(gd_path, gd_type)
    /\ gd_pc' = "done"
    /\ UNCHANGED <<gd_path, gd_type>>
    /\ UNCHANGED others_dispatch

NextDispatch == CallGetDatasetFn

\* The text after the last '.' of a path (the whole path when it has no '.').
AfterLastDot(path) ==
    LET dots == {i \in 1..Len(path) : path[i] = "."}
    IN IF dots = {} THEN path
       ELSE LET last == CHOOSE i \in dots : \A j \in dots : j <= i
            IN SubSeq(path, last + 1, Len(path))

\* The dispatch table as the claim states it.
ClaimedBuilder(path, type) ==
    CASE type = <<"w","e","b","d","a","t","a","s","e","t">> -> "get_wds_dataset"
      [] type = <<"c","s","v">> -> "get_csv_dataset"
      [] type = <<"i","m","a","g","e","f","o","l","d","e","r">> -> "get_imagefolder_dataset"
      [] type = <<"s","y","n","t","h","e","t","i","c">> -> "get_synthetic_dataset"
      [] type = <<"a","u","t","o">> ->
            (CASE AfterLastDot(path) = <<"c","s","v">> -> "get_csv_dataset"
               [] AfterLastDot(path) = <<"t","s","v">> -> "get_csv_dataset"
               [] AfterLastDot(path) = <<"t","a","r">> -> "get_wds_dataset"
               [] OTHER -> "ValueError")
      [] OTHER -> "ValueError"

\* C4: get_dataset_fn returns the builder of the claim's table for every
\* dataset_type and data_path ('auto' by the text after the last '.'), raises
\* ValueError everywhere else, and never returns a fifth builder.
C4_Dispatch ==
    gd_pc = "done" =>
        /\ gd_result = ClaimedBuilder(gd_path, gd_type)
        /\ gd_result \in {"get_wds_dataset", "get_csv_dataset",
                          "get_imagefolder_dataset", "get_synthetic_dataset",
                          "ValueError"}

\* 'auto' on a path with a '.' and the extension tsv reached the CSV builder.
C4_Witness ==
    /\ gd_pc = "done"
    /\ gd_type = <<"a","u","t","o">>
    /\ gd_path = <<"a", ".", "t", "s", "v">>
    /\ gd_result = "get_csv_dataset"

\* ------------------------------------------------- epoch synchronisation
Workers == 1..NumWorkers

\* pytorch_worker_seed(): worker_info.seed, the loader's base seed + worker id
pytorch_worker_seed(w) == TorchBaseSeed + w

\* What get_wds_dataset hands the first pipeline stage as `epoch`: the
\* SharedEpoch it has just built (ResampledShards2(..., epoch=shared_epoch),
\* detshuffle2(..., epoch=shared_epoch)).
StageEpochArg == "SharedEpoch"

\* DataInfo.set_epoch without the write (shared_epoch is None).
set_epoch_skipped(current, epoch) == current

\* DataInfo.set_epoch: the new value of the shared counter
\* (self.shared_epoch.set_value(epoch)).
set_epoch(current, epoch) == epoch

\* The epoch a pass uses and the stage's own counter afterwards, as
\* detshuffle2.run and ResampledShards2.__iter__ compute them: the shared value
\* when self.epoch is a SharedEpoch, else self.epoch += 1.
pass_epoch(stage_epoch, shared, local) ==
    IF stage_epoch = "SharedEpoch"
    THEN [epoch |-> shared, local |-> local]
    ELSE [epoch |-> local + 1, local |-> local + 1]

\* The seed of the pass: detshuffle2.run seeds with seed + epoch (the worker
\* seed when self.seed < 0); ResampledShards2 (deterministic=True) with
\* worker_seed() + epoch.
pass_seed(w, cfg, epoch) ==
    IF cfg.resampled THEN pytorch_worker_seed(w) + epoch
    ELSE IF cfg.seed < 0 THEN pytorch_worker_seed(w) + epoch
    ELSE cfg.seed + epoch

InitEpoch ==
    /\ IdleCipher /\ IdleDispatch /\ IdleGroup /\ IdleCount
    /\ IdleWds /\ IdleFilter /\ IdleZS /\ IdleTrain /\ IdleResample
    /\ ep_cfg \in [seed : {-1, 0}, resampled : BOOLEAN, ramping : BOOLEAN]
    /\ ep_epoch \in 0..MaxStartEpoch
    /\ ep_last = ep_epoch + MaxEpochs - 1
    \* get_wds_dataset: shared_epoch = SharedEpoch(epoch=epoch)
    /\ shared_epoch = ep_epoch
    /\ ep_main = "entered"
    /\ ep_wpc = [w \in Workers |-> "not_started"]
    /\ ep_wlocal = [w \in Workers |-> -1]
    /\ ep_wepoch = [w \in Workers |-> -1]
    /\ ep_wseed = [w \in Workers |-> -1]
    /\ ep_wbatches = [w \in Workers |-> 0]

\* train_one_epoch line 131: data['train'].set_epoch(epoch)
SetEpoch ==
    /\ ep_main = "entered"
    /\ shared_epoch' = set_epoch(shared_epoch, ep_epoch)
    /\ ep_main' = "epoch_set"
    /\ UNCHANGED <<ep_cfg, ep_epoch, ep_last, ep_wpc, ep_wlocal, ep_wepoch,
                   ep_wseed, ep_wbatches>>
    /\ UNCHANGED others_epoch

\* train_one_epoch line 172: enumerate(dataloader) builds the loader's iterator:
\* the workers are started (first epoch) or told to resume (persistent
\* workers); each then makes a fresh iterator of the dataset.
StartIteration ==
    /\ ep_main = "epoch_set"
    /\ ep_main' = "iterating"
    /\ ep_wpc' = [w \in Workers |-> "resume_pending"]
    /\ ep_wbatches' = [w \in Workers |-> 0]
    /\ UNCHANGED <<shared_epoch, ep_cfg, ep_epoch, ep_last, ep_wlocal,
                   ep_wepoch, ep_wseed>>
    /\ UNCHANGED others_epoch

\* A worker starts a pass over the shards: detshuffle2.run or
\* ResampledShards2.__iter__ runs in the worker process.
StartPass(w) ==
    LET p == pass_epoch(StageEpochArg, shared_epoch, ep_wlocal[w])
    IN /\ ep_wepoch' = [ep_wepoch EXCEPT ![w] = p.epoch]
       /\ ep_wlocal' = [ep_wlocal EXCEPT ![w] = p.local]
       /\ ep_wseed' = [ep_wseed EXCEPT ![w] = pass_seed(w, ep_cfg, p.epoch)]

WorkerStartPass(w) ==
    /\ ep_wpc[w] = "resume_pending"
    /\ StartPass(w)
    /\ ep_wpc' = [ep_wpc EXCEPT ![w] = "running"]
    /\ UNCHANGED <<shared_epoch, ep_cfg, ep_epoch, ep_last, ep_main, ep_wbatches>>
    /\ UNCHANGED others_epoch

\* The worker's shards ran out before its with_epoch length: the pipeline is
\* iterated again (a new pass) inside the same worker iterator.
WorkerRestartPass(w) ==
    /\ ep_wpc[w] = "running"
    /\ StartPass(w)
    /\ UNCHANGED <<shared_epoch, ep_cfg, ep_epoch, ep_last, ep_main, ep_wpc,
                   ep_wbatches>>
    /\ UNCHANGED others_epoch

\* The worker yields a batch; after WorkerBatches batches (with_epoch) its
\* iterator is exhausted and the worker waits for the next resume.
WorkerYield(w) ==
    /\ ep_wpc[w] = "running"
    /\ ep_wbatches[w] < WorkerBatches
    /\ ep_wbatches' = [ep_wbatches EXCEPT ![w] = @ + 1]
    /\ ep_wpc' = [ep_wpc EXCEPT
                    ![w] = IF ep_wbatches[w] + 1 = WorkerBatches
                           THEN "exhausted" ELSE "running"]
    /\ UNCHANGED <<shared_epoch, ep_cfg, ep_epoch, ep_last, ep_main, ep_wlocal,
                   ep_wepoch, ep_wseed>>
    /\ UNCHANGED others_epoch

\* The loop of train_one_epoch ends (every worker exhausted) and the caller
\* calls train_one_epoch for the next epoch.
EndEpoch ==
    /\ ep_main = "iterating"
    /\ \A w \in Workers : ep_wpc[w] = "exhausted"
    /\ ep_main' = IF ep_epoch = ep_last THEN "finished" ELSE "entered"
    /\ ep_epoch' = IF ep_epoch = ep_last THEN ep_epoch ELSE ep_epoch + 1
    /\ UNCHANGED <<shared_epoch, ep_cfg, ep_last, ep_wpc, ep_wlocal, ep_wepoch,
                   ep_wseed, ep_wbatches>>
    /\ UNCHANGED others_epoch

\* train_one_epoch lines 330-333: with args.ramping the function returns in
\* the middle of the loop; the workers are left where they are.
RampingReturn ==
    /\ ep_main = "iterating"
    /\ ep_cfg.ramping
    /\ \E w \in Workers : ep_wbatches[w] > 0
    /\ ep_main' = IF ep_epoch = ep_last THEN "finished" ELSE "entered"
    /\ ep_epoch' = IF ep_epoch = ep_last THEN ep_epoch ELSE ep_epoch + 1
    /\ UNCHANGED <<shared_epoch, ep_cfg, ep_last, ep_wpc, ep_wlocal, ep_wepoch,
                   ep_wseed, ep_wbatches>>
    /\ UNCHANGED others_epoch

NextEpoch ==
    \/ SetEpoch
    \/ StartIteration
    \/ \E w \in Workers : WorkerStartPass(w)
    \/ \E w \in Workers : WorkerRestartPass(w)
    \/ \E w \in Workers : WorkerYield(w)
    \/ EndEpoch
    \/ RampingReturn

\* C1: while train_one_epoch(epoch = e) iterates the training dataloader the
\* shared counter holds e, and every worker pass that feeds this iteration
\* (started after the loader's iterator was built) read e and seeded its
\* shuffle with e: no worker of the epoch uses a value of an earlier call.
C1_EpochSync ==
    ep_main = "iterating" =>
        /\ shared_epoch = ep_epoch
        /\ \A w \in Workers :
              ep_wpc[w] \in {"running", "exhausted"} =>
                  /\ ep_wepoch[w] = ep_epoch
                  /\ ep_wseed[w] = pass_seed(w, ep_cfg, ep_epoch)

\* In a later call than the first, after an early (ramping) return of the
\* call before, both workers run passes of the new epoch.
C1_Witness ==
    /\ ep_main = "iterating"
    /\ ep_epoch = ep_last
    /\ ep_cfg.ramping
    /\ \A w \in Workers : ep_wpc[w] = "running" /\ ep_wepoch[w] = ep_epoch
    /\ \E w \in Workers : ep_wbatches[w] = 1

\* ------------------------------------------------- group_by_keys_nothrow
\* webdataset's base_plus_ext, the regex ^((?:.*/|)[^.]+)[.]([^/]*)$ : the
\* name is cut at the first '.' after the last '/'; the part before must end
\* in at least one character that follows every earlier '.' and the '/' the
\* directory part ends with.  has = FALSE is the (None, None) result.
base_plus_ext(path) ==
    LET slashes == {i \in 1..Len(path) : path[i] = "/"}
        lastSlash == IF slashes = {} THEN 0
                     ELSE CHOOSE i \in slashes : \A j \in slashes : j <= i
        dots == {i \in (lastSlash + 1)..Len(path) : path[i] = "."}
    IN IF dots = {} THEN [has |-> FALSE, prefix |-> <<>>, suffix |-> <<>>]
       ELSE LET d == CHOOSE i \in dots : \A j \in dots : i <= j
                before == {i \in 1..(d - 1) : path[i] = "."}
                q == IF before = {} THEN 0
                     ELSE CHOOSE i \in before : \A j \in before : j <= i
            IN IF (q = 0 /\ d > 1) \/ (\E k \in (q + 1)..(d - 2) : path[k] = "/")
               THEN [has |-> TRUE, prefix |-> SubSeq(path, 1, d - 1),
                     suffix |-> SubSeq(path, d + 1, Len(path))]
               ELSE [has |-> FALSE, prefix |-> <<>>, suffix |-> <<>>]

\* str.lower() on the characters of the entry names
lower_char(c) == IF InTable(Upper, c) THEN Lower[IndexIn(Upper, c)] ELSE c
lower(text) == [i \in 1..Len(text) |-> lower_char(text[i])]

\* webdataset's valid_sample: not None, a dict with at least one key, and no
\* true "__bad__" entry.  A sample always holds __key__ and __url__.
valid_sample(has, sample) ==
    /\ has
    /\ ~(\E f \in DOMAIN sample.fields :
            f = <<"_","_","b","a","d","_","_">> /\ sample.fields[f] # 0)

\* `suffix in current_sample`
suffix_in(suffix, sample) == suffix \in DOMAIN sample.fields

\* current_sample[suffix] = value
set_field(sample, suffix, value) ==
    [sample EXCEPT !.fields =
        [f \in (DOMAIN sample.fields) \cup {suffix} |->
            IF f = suffix THEN value ELSE sample.fields[f]]]

\* The loop body as webdataset's own group_by_keys has it: a repeated suffix
\* raises ValueError.
group_step_throwing(has, current, filesample) ==
    LET k == base_plus_ext(filesample.fname)
        suffix == lower(k.suffix)
        fresh == ~has \/ k.prefix # current.key
        started == [key |-> k.prefix, url |-> filesample.url, fields |-> <<>>]
    IN IF ~k.has
       THEN [has |-> has, current |-> current, yielded |-> <<>>, raised |-> FALSE]
       ELSE IF ~fresh /\ suffix_in(suffix, current)
       THEN [has |-> has, current |-> current, yielded |-> <<>>, raised |-> TRUE]
       ELSE [has |-> TRUE,
             current |-> set_field(IF fresh THEN started ELSE current,
                                   suffix, filesample.data),
             yielded |-> IF fresh /\ valid_sample(has, current)
                         THEN <<current>> ELSE <<>>,
             raised |-> FALSE]

\* One pass of the for loop of group_by_keys_nothrow (lcase=True,
\* suffixes=None, as tarfile_to_samples_nothrow calls it): the new
\* current_sample, what is yielded, and whether it raised.
group_step(has, current, filesample) ==
    LET k == base_plus_ext(filesample.fname)
        suffix == lower(k.suffix)
        fresh == ~has \/ k.prefix # current.key \/ suffix_in(suffix, current)
        started == [key |-> k.prefix, url |-> filesample.url, fields |-> <<>>]
    IN IF ~k.has
       THEN [has |-> has, current |-> current, yielded |-> <<>>, raised |-> FALSE]
       ELSE [has |-> TRUE,
             current |-> set_field(IF fresh THEN started ELSE current,
                                   suffix, filesample.data),
             yielded |-> IF fresh /\ valid_sample(has, current)
                         THEN <<current>> ELSE <<>>,
             raised |-> FALSE]

\* Names of tar entries: two keys, the extensions j, J and t, a name with no
\* extension and a name that starts with the '.'.
EntryNames ==
    {<<"a",".","j">>, <<"a",".","J">>, <<"a",".","t">>, <<"b",".","j">>,
     <<"b",".","t">>, <<"a">>, <<".","j">>}

\* The entries of two tar files in stream order: names, the first `cut`
\* entries come from the first tar; data is the entry's position.
TarStream(names, cut) ==
    [i \in 1..Len(names) |->
        [fname |-> names[i], data |-> i,
         url |-> IF i <= cut THEN "tar1" ELSE "tar2"]]

InitGroup ==
    /\ IdleCipher /\ IdleDispatch /\ IdleEpoch /\ IdleCount
    /\ IdleWds /\ IdleFilter /\ IdleZS /\ IdleTrain /\ IdleResample
    /\ \E names \in StringsUpTo(EntryNames, MaxEntries) :
          \E cut \in 0..Len(names) : gk_data = TarStream(names, cut)
    /\ gk_i = 0 /\ gk_has = FALSE /\ gk_current = NoSample
    /\ gk_out = <<>> /\ gk_raised = FALSE /\ gk_pc = "loop"

\* The for loop takes the next filesample.
GroupStep ==
    /\ gk_pc = "loop"
    /\ gk_i < Len(gk_data)
    /\ LET r == group_step(gk_has, gk_current, gk_data[gk_i + 1])
       IN /\ gk_has' = r.has
          /\ gk_current' = r.current
          /\ gk_out' = gk_out \o r.yielded
          /\ gk_raised' = r.raised
          /\ gk_pc' = IF r.raised THEN "done" ELSE "loop"
    /\ gk_i' = gk_i + 1
    /\ UNCHANGED gk_data
    /\ UNCHANGED others_group

\* After the loop: the last sample is yielded when valid.
GroupFinish ==
    /\ gk_pc = "loop"
    /\ gk_i = Len(gk_data)
    /\ gk_out' = IF valid_sample(gk_has, gk_current)
                 THEN Append(gk_out, gk_current) ELSE gk_out
    /\ gk_pc' = "done"
    /\ UNCHANGED <<gk_data, gk_i, gk_has, gk_current, gk_raised>>
    /\ UNCHANGED others_group

NextGroup == GroupStep \/ GroupFinish

\* The next entry repeats a suffix of the current sample under the same key.
RepeatedSuffix ==
    /\ gk_pc = "loop" /\ gk_i < Len(gk_data) /\ gk_has
    /\ LET k == base_plus_ext(gk_data[gk_i + 1].fname)
       IN /\ k.has
          /\ k.prefix = gk_current.key
          /\ lower(k.suffix) \in DOMAIN gk_current.fields

None == 0 - 1
Falsy(x) == x = None \/ x = 0

RECURSIVE Sum(_)
Sum(seq) == IF seq = <<>> THEN 0 ELSE Head(seq) + Sum(Tail(seq))

\* get_dataset_size: sizes.json gives the sum of the shards' sizes, else
\* __len__ gives its value, else None; and the number of shards.
get_dataset_size(dir) ==
    [total_size |-> IF dir.sizes # <<>> THEN Sum(dir.sizes)
                    ELSE IF dir.len # None THEN dir.len
                    ELSE None,
     num_shards |-> dir.shards]

\* Lines 1070-1079: the count and the shards get_wds_dataset starts from.
initial_count(args, dir) ==
    IF args.schema
    THEN [num_samples |-> Sum([i \in 1..Len(args.schemas) |->
                                  args.schemas[i].train_num_samples]),
          num_shards |-> Sum([i \in 1..Len(args.schemas) |->
                                  args.schemas[i].shards])]
    ELSE LET r == get_dataset_size(dir)
         IN [num_samples |-> r.total_size, num_shards |-> r.num_shards]

\* Lines 1082-1090 with the training branch falling back like evaluation.
fallback_count_no_raise(num_samples, is_train, args) ==
    IF Falsy(num_samples)
    THEN IF is_train
         THEN [num_samples |->
                   IF Falsy(args.train_num_samples) THEN 0
                   ELSE args.train_num_samples,
               raised |-> FALSE]
         ELSE [num_samples |->
                   IF Falsy(args.val_num_samples) THEN 0
                   ELSE args.val_num_samples,
               raised |-> FALSE]
    ELSE [num_samples |-> num_samples, raised |-> FALSE]

\* Lines 1082-1090: `if not num_samples:` the count comes from the
\* arguments; training without one raises RuntimeError.
fallback_count(num_samples, is_train, args) ==
    IF Falsy(num_samples)
    THEN IF is_train
         THEN IF Falsy(args.train_num_samples)
              THEN [num_samples |-> args.train_num_samples, raised |-> TRUE]
              ELSE [num_samples |-> args.train_num_samples, raised |-> FALSE]
         ELSE [num_samples |->
                   IF Falsy(args.val_num_samples) THEN 0
                   ELSE args.val_num_samples,
               raised |-> FALSE]
    ELSE [num_samples |-> num_samples, raised |-> FALSE]

\* The sizes a shard has in sizes.json, and the sample counts of a schema.
ShardSizes == {0, 2}
SchemaCounts == {0, 2}

\* Shard directories: n shards, sizes.json absent (<<>>) or with a size per
\* shard, __len__ absent (None) or holding a number.
Directories ==
    UNION {
        [shards : {n},
         sizes : {<<>>} \cup [1..n -> ShardSizes],
         len : {None} \cup 0..MaxSamples]
        : n \in 1..MaxShards}

\* args.schemas: one or two schemas, each with its shards and its
\* train_num_samples.
Schemas ==
    LET One == [shards : {1, 2}, train_num_samples : SchemaCounts]
    IN [1..1 -> One] \cup [1..2 -> One]

InitCount ==
    /\ IdleCipher /\ IdleDispatch /\ IdleEpoch /\ IdleGroup
    /\ IdleWds /\ IdleFilter /\ IdleZS /\ IdleTrain /\ IdleResample
    /\ wc_is_train \in BOOLEAN
    /\ wc_dir \in Directories
    /\ \E sch \in {<<>>} \cup Schemas :
       \E tns \in {None} \cup 0..MaxSamples :
       \E vns \in {None, 0, MaxSamples} :
          wc_args = [schema |-> sch # <<>>, schemas |-> sch,
                     train_num_samples |-> tns, val_num_samples |-> vns]
    /\ wc_num_samples = None /\ wc_num_shards = 0
    /\ wc_pc = "start"

\* Lines 1070-1079
CountInitial ==
    /\ wc_pc = "start"
    /\ LET r == initial_count(wc_args, wc_dir)
       IN /\ wc_num_samples' = r.num_samples
          /\ wc_num_shards' = r.num_shards
    /\ wc_pc' = "sized"
    /\ UNCHANGED <<wc_args, wc_is_train, wc_dir>>
    /\ UNCHANGED others_count

\* Lines 1082-1090
CountFallback ==
    /\ wc_pc = "sized"
    /\ LET r == fallback_count(wc_num_samples, wc_is_train, wc_args)
       IN /\ wc_num_samples' = r.num_samples
          /\ wc_pc' = IF r.raised THEN "RuntimeError" ELSE "counted"
    /\ UNCHANGED <<wc_args, wc_is_train, wc_dir, wc_num_shards>>
    /\ UNCHANGED others_count

NextCount == CountInitial \/ CountFallback

\* The shard directory gives no sample count: no sizes.json and no __len__
\* file, or a count of 0.
DirGivesNoCount(dir) ==
    \/ dir.sizes = <<>> /\ dir.len = None
    \/ dir.sizes # <<>> /\ \A i \in 1..Len(dir.sizes) : dir.sizes[i] = 0
    \/ dir.sizes = <<>> /\ dir.len = 0

\* The schemas give no sample count: every train_num_samples is 0.
SchemasGiveNoCount(schemas) ==
    \A i \in 1..Len(schemas) : schemas[i].train_num_samples = 0

Settled == wc_pc \in {"counted", "RuntimeError"}

\* C10 (as claimed): training raises RuntimeError whenever the shard
\* directory gives no sample count and args.train_num_samples is unset or 0;
\* evaluation does not raise there and falls back to val_num_samples or 0.
C10_AsClaimed ==
    Settled /\ DirGivesNoCount(wc_dir) =>
        IF wc_is_train
        THEN Falsy(wc_args.train_num_samples) => wc_pc = "RuntimeError"
        ELSE /\ wc_pc = "counted"
             /\ wc_num_samples = IF Falsy(wc_args.val_num_samples) THEN 0
                                 ELSE wc_args.val_num_samples

\* C10 (amended): the same, for the count get_wds_dataset starts from: the
\* schemas' train_num_samples when args.schema is set, the shard directory's
\* otherwise.
C10_Amended ==
    Settled /\ (IF wc_args.schema THEN SchemasGiveNoCount(wc_args.schemas)
                ELSE DirGivesNoCount(wc_dir)) =>
        IF wc_is_train
        THEN Falsy(wc_args.train_num_samples) => wc_pc = "RuntimeError"
        ELSE /\ wc_pc = "counted"
             /\ wc_num_samples = IF Falsy(wc_args.val_num_samples) THEN 0
                                 ELSE wc_args.val_num_samples

\* Training, no schema, a sizes.json whose sizes sum to 0 beside a __len__
\* file with a count, train_num_samples unset: RuntimeError.
C10_Witness ==
    /\ wc_pc = "RuntimeError"
    /\ wc_is_train /\ ~wc_args.schema
    /\ wc_dir.sizes # <<>> /\ wc_dir.len = MaxSamples
    /\ wc_args.train_num_samples = None

\* --------------------------- get_wds_dataset: the pipeline, the epoch length
\* math.ceil(a / b) and math.floor(a / b) for a >= 0, b >= 1
Ceil(a, b) == (a + b - 1) \div b
Floor(a, b) == a \div b
Max(a, b) == IF a >= b THEN a ELSE b

\* Line 1081: resampled = getattr(args, 'dataset_resampled', False) and is_train
Resampled(args, is_train) == args.dataset_resampled /\ is_train

\* Lines 1092-1131: the stages up to the rename, by is_train and resampled.
shard_stages(args, is_train) ==
    (IF Resampled(args, is_train) THEN <<"ResampledShards2">>
     ELSE <<"SimpleShardList">>)
    \o (IF is_train
        THEN (IF ~Resampled(args, is_train)
              THEN <<"detshuffle2", "split_by_node", "split_by_worker">>
              ELSE <<>>)
             \o <<"tarfile_to_samples_nothrow", "shuffle">>
        ELSE <<"split_by_worker", "tarfile_to_samples">>)
    \o <<"select(filter_no_caption_or_no_image)", "decode", "rename">>

\* get_wds_dataset_simclr, lines 1045-1052: the stages it adds.
simclr_stages(args, is_train) ==
    <<"map(replace_with_image)", "map_dict(preprocess_img, preprocess_img)",
      "to_tuple", "batched">>

\* Lines 1138-1154: the stages of the image/text pipeline.
text_stages(args, is_train) ==
    (IF args.text_filters
     THEN <<"map_dict(filter_preprocess_txt)", "select(filter_no_caption_text)">>
     ELSE <<>>)
    \o (IF args.integer_labels THEN <<"map_dict(preprocess_img)">>
        ELSE <<"map_dict(preprocess_img, preprocess_txt)">>)
    \o <<"to_tuple", "batched">>

\* get_wds_dataset_simclr, lines 1054-1067: what it reports.
simclr_report(args, num_samples) ==
    [num_batches |-> Ceil(num_samples, args.batch_size),
     num_samples |-> num_samples,
     with_epoch |-> None]

\* Lines 1156-1170: the shard assertion, the rounding and the epoch length.
epoch_report(args, is_train, floor, num_samples, num_shards) ==
    IF is_train
    THEN IF ~Resampled(args, is_train)
            /\ ~(num_shards >= args.workers * args.world_size)
         THEN [error |-> TRUE, num_batches |-> 0, num_samples |-> num_samples,
               with_epoch |-> None]
         ELSE LET global_batch_size == args.batch_size * args.world_size
                  batches == IF floor THEN Floor(num_samples, global_batch_size)
                             ELSE Ceil(num_samples, global_batch_size)
                  num_workers == Max(1, args.workers)
                  num_worker_batches == IF floor THEN Floor(batches, num_workers)
                                        ELSE Ceil(batches, num_workers)
                  num_batches == num_worker_batches * num_workers
              IN [error |-> FALSE, num_batches |-> num_batches,
                  num_samples |-> num_batches * global_batch_size,
                  with_epoch |-> num_worker_batches]
    ELSE [error |-> FALSE, num_batches |-> Ceil(num_samples, args.batch_size),
          num_samples |-> num_samples, with_epoch |-> None]

InitWds ==
    /\ IdleCipher /\ IdleDispatch /\ IdleEpoch /\ IdleGroup
    /\ IdleCount /\ IdleFilter /\ IdleZS /\ IdleTrain /\ IdleResample
    /\ wd_args \in [batch_size : 1..MaxBatchSize, world_size : 1..MaxWorldSize,
                    workers : 0..MaxWorkers, sim_clr : BOOLEAN,
                    dataset_resampled : BOOLEAN, text_filters : BOOLEAN,
                    integer_labels : BOOLEAN]
    /\ wd_is_train \in BOOLEAN
    /\ wd_floor \in BOOLEAN
    \* line 1090 leaves a positive count for training, a count >= 0 otherwise
    /\ wd_count \in 0..MaxCount
    /\ wd_is_train => wd_count >= 1
    /\ wd_num_shards \in 1..MaxShards
    /\ wd_pipeline = <<>> /\ wd_with_epoch = None
    /\ wd_num_batches = None /\ wd_num_samples = None
    /\ wd_pc = "counted"

\* Lines 1092-1131 and, with args.sim_clr, the return of line 1133 through
\* get_wds_dataset_simclr.
BuildShardStages ==
    /\ wd_pc = "counted"
    /\ IF wd_args.sim_clr
       THEN LET r == simclr_report(wd_args, wd_count)
            IN /\ wd_pipeline' = shard_stages(wd_args, wd_is_train)
                                    \o simclr_stages(wd_args, wd_is_train)
               /\ wd_num_batches' = r.num_batches
               /\ wd_num_samples' = r.num_samples
               /\ wd_with_epoch' = r.with_epoch
               /\ wd_pc' = "returned"
       ELSE /\ wd_pipeline' = shard_stages(wd_args, wd_is_train)
            /\ wd_pc' = "built"
            /\ UNCHANGED <<wd_num_batches, wd_num_samples, wd_with_epoch>>
    /\ UNCHANGED <<wd_args, wd_is_train, wd_floor, wd_count, wd_num_shards>>
    /\ UNCHANGED others_wds

\* Lines 1138-1198
BuildTextStagesAndReport ==
    /\ wd_pc = "built"
    /\ LET r == epoch_report(wd_args, wd_is_train, wd_floor, wd_count,
                             wd_num_shards)
       IN /\ wd_pipeline' = wd_pipeline \o text_stages(wd_args, wd_is_train)
          /\ IF r.error
             THEN /\ wd_pc' = "AssertionError"
                  /\ UNCHANGED <<wd_num_batches, wd_num_samples, wd_with_epoch>>
             ELSE /\ wd_pc' = "returned"
                  /\ wd_num_batches' = r.num_batches
                  /\ wd_num_samples' = r.num_samples
                  /\ wd_with_epoch' = r.with_epoch
    /\ UNCHANGED <<wd_args, wd_is_train, wd_floor, wd_count, wd_num_shards>>
    /\ UNCHANGED others_wds

NextWds == BuildShardStages \/ BuildTextStagesAndReport

\* C9 (as claimed): a training loader that get_wds_dataset returns reports
\* num_batches as a multiple of max(1, workers), gives every worker the epoch
\* length num_batches / max(1, workers), reports num_samples = num_batches *
\* batch_size * world_size, never below the real count with ceiling rounding
\* and never above it with floor=True.
C9_EqualBatches ==
    wd_pc = "returned" /\ wd_is_train =>
        LET num_workers == Max(1, wd_args.workers)
        IN /\ wd_num_batches % num_workers = 0
           /\ wd_with_epoch # None
           /\ wd_with_epoch * num_workers = wd_num_batches
           /\ wd_num_samples
                = wd_num_batches * wd_args.batch_size * wd_args.world_size
           /\ ~wd_floor => wd_num_samples >= wd_count
           /\ wd_floor => wd_num_samples <= wd_count

\* C11: a training call of get_wds_dataset without shard resampling returns
\* a pipeline exactly when num_shards >= args.workers * args.world_size and
\* fails its assertion otherwise, so a returned training pipeline has a shard
\* for every dataloader worker of every node; with resampling the call
\* returns whatever the number of shards.
C11_ShardCount ==
    wd_pc \in {"returned", "AssertionError"} /\ wd_is_train =>
        IF Resampled(wd_args, wd_is_train)
        THEN wd_pc = "returned"
        ELSE wd_pc = "returned"
                <=> wd_num_shards >= wd_args.workers * wd_args.world_size

\* ------------------------------------------------------ ResampledShards2
\* The shard urls a list is made of.
ShardUrls == {"s0.tar", "s1.tar", "s2.tar"}

\* A draw that is not held to the list.
choice_any(urls) == ShardUrls

\* self.rng.choice(self.urls): the values a draw can give
choice(urls) == {urls[i] : i \in 1..Len(urls)}

\* __init__ (lines 966-986): the urls are expanded to a list whose first
\* entry exists and is a string; nshards, deterministic and epoch are kept.
InitResample ==
    /\ IdleCipher /\ IdleDispatch /\ IdleEpoch /\ IdleGroup /\ IdleCount
    /\ IdleWds /\ IdleFilter /\ IdleZS /\ IdleTrain
    /\ rs_urls \in UNION {[1..k -> ShardUrls] : k \in 1..MaxUrls}
    /\ rs_nshards \in 0..MaxNShards
    /\ rs_self \in [deterministic : BOOLEAN, epoch_kind : {"SharedEpoch", "int"},
                     shared : 0..MaxStartEpoch]
    /\ rs_epoch = -1
    /\ rs_seed = None
    /\ rs_iters = 0
    /\ rs_out = <<>>
    /\ rs_pc = "built"

\* __iter__, lines 988-999: the epoch of the pass and the seeding; a new
\* iterator starts with nothing yielded.
ResampledIter ==
    /\ rs_pc \in {"built", "exhausted"}
    /\ rs_iters < MaxIterations
    /\ LET p == pass_epoch(rs_self.epoch_kind, rs_self.shared, rs_epoch)
       IN /\ rs_epoch' = p.local
          /\ rs_seed' = IF rs_self.deterministic
                         THEN pytorch_worker_seed(1) + p.epoch
                         ELSE rs_seed
    /\ rs_iters' = rs_iters + 1
    /\ rs_out' = <<>>
    /\ rs_pc' = "iterating"
    /\ UNCHANGED <<rs_urls, rs_nshards, rs_self>>
    /\ UNCHANGED others_resample

\* lines 1000-1001: one turn of the loop over range(self.nshards)
ResampledYield ==
    /\ rs_pc = "iterating"
    /\ Len(rs_out) < rs_nshards
    /\ \E u \in choice(rs_urls) : rs_out' = Append(rs_out, [url |-> u])
    /\ UNCHANGED <<rs_urls, rs_nshards, rs_self, rs_epoch, rs_seed, rs_iters,
                   rs_pc>>
    /\ UNCHANGED others_resample

\* line 1000: range(self.nshards) is used up and the generator ends
ResampledStop ==
    /\ rs_pc = "iterating"
    /\ Len(rs_out) = rs_nshards
    /\ rs_pc' = "exhausted"
    /\ UNCHANGED <<rs_urls, rs_nshards, rs_self, rs_epoch, rs_seed, rs_iters,
                   rs_out>>
    /\ UNCHANGED others_resample

NextResample == ResampledIter \/ ResampledYield \/ ResampledStop

\* C13: an iteration of ResampledShards2 yields exactly nshards entries (never
\* more while it runs, nshards when it ends), each a dict with the one key url
\* whose value is a member of the expanded url list.
C13_Resampled ==
    rs_pc \in {"iterating", "exhausted"} =>
        /\ Len(rs_out) <= rs_nshards
        /\ rs_pc = "exhausted" => Len(rs_out) = rs_nshards
        /\ \A i \in 1..Len(rs_out) :
              /\ DOMAIN rs_out[i] = {"url"}
              /\ \E j \in 1..Len(rs_urls) : rs_out[i].url = rs_urls[j]

\* The second iteration over a list of two different urls ended after
\* yielding the same url twice.
C13_Witness ==
    /\ rs_pc = "exhausted" /\ rs_iters = 2
    /\ Len(rs_urls) = 2 /\ rs_urls[1] # rs_urls[2]
    /\ Len(rs_out) = 2 /\ rs_out[1] = rs_out[2]

\* ------------------------------------------------ synset_ds and the filter
\* `if x:` for a value
Truthy(v) ==
    CASE v.kind = "str" -> v.str # <<>>
      [] v.kind = "bool" -> v.flag
      [] v.kind = "tensor" -> TRUE

Digits == <<"0","1","2","3","4","5","6","7","8","9">>

RECURSIVE str(_)
\* str(n) / "{}".format(n) for n >= 0
str(n) ==
    IF n < 10 THEN <<Digits[n + 1]>>
    ELSE str(n \div 10) \o <<Digits[(n % 10) + 1]>>

\* int(l) for a string of digits; None for anything else
DigitValue(c) == IF InTable(Digits, c) THEN IndexIn(Digits, c) - 1 ELSE None

RECURSIVE ParseInt(_, _)
ParseInt(text, acc) ==
    IF text = <<>> THEN acc
    ELSE IF DigitValue(Head(text)) = None THEN None
    ELSE ParseInt(Tail(text), 10 * acc + DigitValue(Head(text)))

\* nltk's WordNetLemmatizer.lemmatize on the words of the captions: a plural
\* noun becomes its singular.
lemmatize(t) == IF t = <<"c","a","t","s">> THEN <<"c","a","t">> ELSE t

\* wordnet.synsets(gram) is not empty: the English words of the vocabulary
\* are in WordNet; zq and the n-grams of several words are not.
has_synsets(gram) ==
    gram \in {<<"c","a","t">>, <<"c","a","t","s">>, <<"d","o","g">>,
              <<"r","e","d">>}

\* cipher_dict.get(c) or c, lines 70-103: a..z go to two symbols, the first
\* cycling through @ # $ %, the second changing every four letters.
cipher_char(c) ==
    IF InTable(Lower, c)
    THEN LET i == IndexIn(Lower, c) - 1
         IN << <<"@", "#", "$", "%">>[(i % 4) + 1],
               <<"^", "&", "*", "(", ")", "+", "=">>[(i \div 4) + 1] >>
    ELSE <<c>>

\* k of lines 562-566
cipher_gram(gram) == Join([i \in 1..Len(gram) |-> cipher_char(gram[i])], <<>>)

\* ds_val_getter(ds, False): the names of each class, by class index
\* (0-based in the code: class i of ds has index i - 1).
ds_val_getter(ds) == ds

RECURSIVE append_missing(_, _)
\* lines 586-588: every item not yet in str_s is appended after a blank
append_missing(str_s, items) ==
    IF items = <<>> THEN str_s
    ELSE append_missing(
            IF ~Contains(str_s, Head(items)) THEN str_s \o <<" ">> \o Head(items)
            ELSE str_s,
            Tail(items))

RECURSIVE append_fields(_, _)
\* lines 582-588: the fields of a row, an empty field skipped
append_fields(str_s, fields) ==
    IF fields = <<>> THEN str_s
    ELSE append_fields(
            IF Head(fields) = <<>> THEN str_s
            ELSE append_missing(str_s, Split(Head(fields), <<",", " ">>)),
            Tail(fields))

\* lines 577-588: the first row of metacaptions whose idx contains str(idx)
append_meta(str_s, idx, metacaptions) ==
    LET rows == {r \in 1..Len(metacaptions) :
                    Contains(metacaptions[r].idx, str(idx))}
    IN IF rows = {} THEN str_s
       ELSE LET first == CHOOSE r \in rows : \A q \in rows : r <= q
            IN append_fields(str_s, metacaptions[first].fields)

\* lines 569-595: the body of `if gram_t in val:` for class index idx
on_match(st, gram, gram_t, idx, o) ==
    IF o.integer_labels /\ st.flag
    THEN \* lines 572-576, ending in `continue`
         [flag |-> st.flag,
          str_s |-> IF ~Contains(st.str_s, str(idx))
                    THEN st.str_s \o <<",", " ">> \o str(idx) ELSE st.str_s]
    ELSE LET s1 == IF o.integer_labels THEN str(idx)
                   ELSE IF o.metacaptions # <<>>
                        THEN append_meta(st.str_s, idx, o.metacaptions)
                   ELSE st.str_s
             s2 == IF o.simplecaptions /\ ~st.flag
                       THEN <<"A","n"," ","i","m","a","g","e"," ","o","f"," ">>
                                \o gram_t
                   ELSE IF o.simplecaptions /\ st.flag /\ ~Contains(s1, gram)
                       THEN s1 \o <<" ">> \o gram
                   ELSE s1
             s3 == IF o.cipher THEN Replace(s2, gram, gram_t) ELSE s2
         IN [flag |-> TRUE, str_s |-> s3]

RECURSIVE for_classes(_, _, _, _, _, _)
\* lines 568-595: for idx, val in enumerate(ds_values.values())
for_classes(st, gram, gram_t, ds_values, i, o) ==
    IF i > Len(ds_values) THEN st
    ELSE for_classes(
            IF gram_t \in ds_values[i] THEN on_match(st, gram, gram_t, i - 1, o)
            ELSE st,
            gram, gram_t, ds_values, i + 1, o)

\* lines 596-604: simplecaptions without a dataset.  `d in stopwords...` is
\* never true (d is a list of synsets), and flag is set whatever d is.
on_wordnet(st, gram) ==
    [flag |-> TRUE,
     str_s |-> IF has_synsets(gram) /\ ~st.flag
                   THEN <<"A","n"," ","i","m","a","g","e"," ","o","f"," ">> \o gram
               ELSE IF has_synsets(gram) /\ ~Contains(st.str_s, gram)
                   THEN st.str_s \o <<" ">> \o gram
               ELSE st.str_s]

\* lines 557-604 for one gram
for_gram(st, gram, o) ==
    IF st.flag /\ o.strict THEN st
    ELSE LET gram_t == IF o.cipher THEN cipher_gram(gram) ELSE gram
         IN IF o.ds # <<>>
            THEN for_classes(st, gram, gram_t, ds_val_getter(o.ds), 1, o)
            ELSE IF o.simplecaptions THEN on_wordnet(st, gram)
            ELSE st

\* lines 551-556: the grams that start at word `count` (0-based)
grams_at(words, count, ngram) ==
    LET keep == {i \in 0..(ngram - 1) : ~(count + i - 1 > Len(words))}
        at(i) == Join(SubSeq(words, count + 1,
                             IF count + i + 1 <= Len(words) THEN count + i + 1
                             ELSE Len(words)), <<" ">>)
    IN [j \in 1..Cardinality(keep) |->
            at(CHOOSE i \in keep : Cardinality({q \in keep : q < i}) = j - 1)]

RECURSIVE for_grams(_, _, _, _)
for_grams(st, grams, j, o) ==
    IF j > Len(grams) THEN st
    ELSE for_grams(for_gram(st, grams[j], o), grams, j + 1, o)

RECURSIVE for_words(_, _, _, _)
\* lines 548-604: for count, word in enumerate(s)
for_words(st, words, count, o) ==
    IF count >= Len(words) THEN st
    ELSE IF st.flag /\ o.strict THEN st
    ELSE for_words(for_grams(st, grams_at(words, count, o.ngram), 1, o),
                   words, count + 1, o)

\* lines 606-619: what synset_ds returns after the loop ended in st
synset_return(st, cipher, simplecaptions, shift, integer_labels) ==
    IF cipher \/ simplecaptions \/ integer_labels
    THEN StrV(IF ~st.flag THEN <<>>
              ELSE IF Len(st.str_s) > 76 THEN SubSeq(st.str_s, 1, 75)
              ELSE st.str_s)
    ELSE IF shift # 0
         THEN StrV(shift_cipher(IF Len(st.str_s) > 76
                                THEN SubSeq(st.str_s, 1, 75) ELSE st.str_s,
                                shift))
    ELSE BoolV(st.flag)

\* line 543: the lemmatised words of s
lemmatized(pieces) == [i \in 1..Len(pieces) |-> lemmatize(pieces[i])]

\* lines 542-604: the loop, from flag = False and str_s the joined words
synset_loop(words, o) ==
    for_words([flag |-> FALSE, str_s |-> Join(words, <<" ">>)], words, 0, o)

\* synset_ds, lines 541-619.  shift = 0 stands for None / False.
synset_ds(s, ngram, ds, cipher, simplecaptions, strict, shift, integer_labels, metacaptions) ==
    synset_return(
        synset_loop(lemmatized(Split(s, <<" ">>)),
                    [ngram |-> ngram, ds |-> ds, cipher |-> cipher,
                     simplecaptions |-> simplecaptions, strict |-> strict,
                     integer_labels |-> integer_labels,
                     metacaptions |-> metacaptions]),
        cipher, simplecaptions, shift, integer_labels)

\* torch tensors of labels are 25 wide (line 200)
LabelWidth == 25

\* clean_integer_label for a str label, lines 159-161 and 177-214.
\* ast.literal_eval of one index gives an int, and `for l in label` on an
\* int raises TypeError, caught at line 194; of "i, j" a tuple.
clean_integer_label(label, singleclass, strict, ds) ==
    LET nclasses == IF Len(ds) = 0 THEN 1000 ELSE Len(ds)
        pieces == Split(label, <<",", " ">>)
        ints == [i \in 1..Len(pieces) |-> ParseInt(pieces[i], 0)]
        label_updated == [i \in 1..Len(ints) |->
                            IF ints[i] > nclasses - 1 THEN 0 ELSE ints[i]]
        padded == IF Len(label_updated) < LabelWidth
                  THEN label_updated \o
                       [i \in 1..(LabelWidth - Len(label_updated)) |-> 0 - 1]
                  ELSE SubSeq(label_updated, 1, LabelWidth)
    IN IF label = <<>> THEN StrV(<<>>)
       ELSE IF Len(pieces) = 1 THEN StrV(<<>>)
       ELSE IF \E i \in 1..Len(pieces) : pieces[i] = <<>> \/ ints[i] = None
            THEN StrV(<<>>)
       ELSE IF singleclass THEN TensorV(<<padded[1]>>)
       ELSE IF strict
            THEN IF padded[2] = 0 - 1 THEN TensorV(<<padded[1]>>)
                 ELSE StrV(<<>>)
       ELSE TensorV(padded)

RECURSIVE lstrip(_)
lstrip(text) ==
    IF text # <<>> /\ Head(text) = " " THEN lstrip(Tail(text)) ELSE text

RECURSIVE rstrip(_)
rstrip(text) ==
    IF text # <<>> /\ text[Len(text)] = " "
    THEN rstrip(SubSeq(text, 1, Len(text) - 1)) ELSE text

\* str.strip()
strip(text) == rstrip(lstrip(text))

RECURSIVE shuffles(_)
\* the orders random.shuffle can leave a list in
shuffles(tlist) ==
    IF tlist = <<>> THEN {<<>>}
    ELSE UNION {
            {<<tlist[i]>> \o rest :
                rest \in shuffles(SubSeq(tlist, 1, i - 1)
                                  \o SubSeq(tlist, i + 1, Len(tlist)))}
            : i \in 1..Len(tlist)}

\* scramble_txt, lines 510-514: the texts it can return
scramble_txt(text) ==
    {strip(Join(tlist, <<" ">>)) : tlist \in shuffles(Split(text, <<" ">>))}

\* does filter_preprocess_txt call synset_ds: lines 489 and 501
calls_synset_ds(a) ==
    \/ a.ds_filter # <<>>
    \/ a.ds_cipher \/ a.simplecaptions \/ a.strict \/ a.shift_cipher # 0

\* the call of synset_ds that filter_preprocess_txt makes: with a dataset
\* cipher and simplecaptions are False (lines 492, 499) and with integer
\* labels shift is False too (line 492); line 503 passes the arguments on.
\* No call gives the empty string.
synset_call(text, a) ==
    IF ~calls_synset_ds(a) THEN StrV(<<>>)
    ELSE synset_ds(text, 3, a.ds_filter,
                   a.ds_filter = <<>> /\ a.ds_cipher,
                   a.ds_filter = <<>> /\ a.simplecaptions,
                   a.strict,
                   IF a.ds_filter # <<>> /\ a.integer_labels THEN 0
                   ELSE a.shift_cipher,
                   a.integer_labels, a.metacaptions)

\* filter_preprocess_txt up to line 505, r being what synset_ds returned:
\* text before `if scrambled`
preprocess_txt(text, a, r) ==
    IF a.ds_filter # <<>>
    THEN IF a.integer_labels
         THEN IF Truthy(r)
              THEN clean_integer_label(r.str, ~a.multiclass, a.strict,
                                       a.ds_filter)
              ELSE StrV(<<>>)
         ELSE IF ~Truthy(r) THEN StrV(<<>>) ELSE StrV(text)
    ELSE IF calls_synset_ds(a)
    THEN IF ~Truthy(r) THEN StrV(<<>>) ELSE r
    ELSE StrV(text)

\* lines 506-508 on the text t: the outcomes.  text.split on a tensor or a
\* bool raises AttributeError.
scrambled_txt(t, a) ==
    IF ~a.csv_scrambled THEN {[raised |-> FALSE, text |-> t]}
    ELSE IF t.kind # "str" THEN {[raised |-> TRUE, text |-> t]}
    ELSE {[raised |-> FALSE, text |-> StrV(x)] : x \in scramble_txt(t.str)}

\* filter_preprocess_txt, lines 488-508: the outcomes of one call in which
\* synset_ds returned r
filter_preprocess_txt(text, a, r) ==
    UNION {scrambled_txt(t, a) : t \in {preprocess_txt(text, a, r)}}

\* filter_no_caption_text, lines 866-873, on a sample that has a text
filter_no_caption_text(text) == ~(text.kind = "str" /\ text.str = <<>>)

\* get_wds_dataset line 1138: are the two text stages in the pipeline
has_text_stages(a) ==
    \/ a.ds_filter # <<>> \/ a.csv_scrambled \/ a.ds_cipher
    \/ a.simplecaptions \/ a.strict \/ a.shift_cipher # 0
    \/ a.integer_labels \/ a.metacaptions # <<>>

CaptionWords ==
    {<<"c","a","t","s">>, <<"d","o","g">>, <<"r","e","d">>, <<"z","q">>}

Captions ==
    {Join(w, <<" ">>) : w \in UNION {[1..n -> CaptionWords] : n \in 0..MaxWords}}

\* args.ds_filter: none, or lists of classes with their names
ClassLists ==
    { <<>>,
      << {<<"c","a","t">>}, {<<"d","o","g">>} >>,
      << {<<"r","e","d"," ","c","a","t">>}, {<<"d","o","g">>},
         {<<"c","a","t">>, <<"k","i","t">>} >> }

\* args.metacaptions: the empty frame, or a frame with one row
MetaTables ==
    { <<>>,
      << [idx |-> <<"1">>,
          fields |-> << <<"p","e","t",","," ","d","o","g">>, <<>> >>] >> }

ShiftArgs == {0, 1}

InitFilter ==
    /\ IdleCipher /\ IdleDispatch /\ IdleEpoch /\ IdleGroup
    /\ IdleCount /\ IdleWds /\ IdleZS /\ IdleTrain /\ IdleResample
    /\ fl_args \in [ds_filter : ClassLists, csv_scrambled : BOOLEAN,
                    ds_cipher : BOOLEAN, simplecaptions : BOOLEAN,
                    strict : BOOLEAN, shift_cipher : ShiftArgs,
                    integer_labels : BOOLEAN, multiclass : BOOLEAN,
                    metacaptions : MetaTables]
    /\ (fl_args.ds_filter = <<>> => fl_args.metacaptions = <<>>)
    /\ fl_text \in Captions
    /\ fl_synset = StrV(<<>>)
    /\ fl_value = StrV(fl_text)
    /\ fl_pc = "renamed"

\* wds.map_dict(text=filter_preprocess_txt, handler=log_and_continue): the
\* text is replaced, or the call raised and log_and_continue skips the sample
MapText ==
    /\ fl_pc = "renamed"
    /\ has_text_stages(fl_args)
    /\ fl_synset' = synset_call(fl_text, fl_args)
    /\ \E r \in filter_preprocess_txt(fl_text, fl_args, fl_synset') :
          IF r.raised
          THEN fl_pc' = "skipped" /\ UNCHANGED fl_value
          ELSE fl_pc' = "mapped" /\ fl_value' = r.text
    /\ UNCHANGED <<fl_args, fl_text>>
    /\ UNCHANGED others_filter

\* wds.select(filter_no_caption_text)
SelectText ==
    /\ fl_pc = "mapped"
    /\ fl_pc' = IF filter_no_caption_text(fl_value) THEN "selected"
                ELSE "rejected"
    /\ UNCHANGED <<fl_args, fl_text, fl_synset, fl_value>>
    /\ UNCHANGED others_filter

\* no text stage in the pipeline: the sample goes on as it is
NoTextStages ==
    /\ fl_pc = "renamed"
    /\ ~has_text_stages(fl_args)
    /\ fl_pc' = "selected"
    /\ UNCHANGED <<fl_args, fl_text, fl_synset, fl_value>>
    /\ UNCHANGED others_filter

NextFilter == MapText \/ SelectText \/ NoTextStages

\* The class indices (0-based) that a caption matches: some gram of one to
\* three consecutive lemmatised words is a name of the class.
MatchedClasses(text, ds) ==
    LET words == [i \in 1..Len(Split(text, <<" ">>)) |->
                    lemmatize(Split(text, <<" ">>)[i])]
    IN {c \in 0..(Len(ds) - 1) :
            \E i \in 1..Len(words) : \E j \in i..Len(words) :
                /\ j - i < 3
                /\ Join(SubSeq(words, i, j), <<" ">>) \in ds[c + 1]}

FilterDone == fl_pc \in {"selected", "rejected", "skipped"}

\* C2: with ds_filter set and integer labels off, a sample whose caption
\* matches no class gets the empty text and is removed, and a sample whose
\* caption matches a class is kept with a non-empty caption.
C2_CaptionFilter ==
    (FilterDone /\ fl_args.ds_filter # <<>> /\ ~fl_args.integer_labels) =>
        IF MatchedClasses(fl_text, fl_args.ds_filter) = {}
        THEN fl_pc = "rejected" /\ fl_value = StrV(<<>>)
        ELSE fl_pc = "selected" /\ fl_value.kind = "str"
             /\ fl_value.str # <<>>

\* C7: with strict=True a match is yielded only for a caption that matches
\* exactly one class: synset_ds returns a true value (no shift cipher in
\* play), and the integer-label path a label, only then.
C7_StrictOneClass ==
    (fl_pc \in {"mapped", "skipped"} /\ fl_args.strict
        /\ fl_args.ds_filter # <<>> /\ fl_args.shift_cipher = 0) =>
        /\ (Truthy(fl_synset) =>
                Cardinality(MatchedClasses(fl_text, fl_args.ds_filter)) = 1)
        /\ (fl_value.kind = "tensor" =>
                Cardinality(MatchedClasses(fl_text, fl_args.ds_filter)) = 1)

\* The grams of one to three consecutive lemmatised words of a caption.
Grams(text) ==
    LET words == lemmatized(Split(text, <<" ">>))
    IN {Join(SubSeq(words, p[1], p[2]), <<" ">>) :
            p \in {q \in (1..Len(words)) \X (1..Len(words)) :
                        q[1] <= q[2] /\ q[2] - q[1] < 3}}

\* Some gram of the caption matched: a class name when a dataset is given,
\* a WordNet entry for simplecaptions without a dataset.
SomeGramMatched(text, ds, simplecaptions) ==
    IF ds # <<>> THEN MatchedClasses(text, ds) # {}
    ELSE simplecaptions /\ \E g \in Grams(text) : g # <<>> /\ has_synsets(g)

\* C14: synset_ds returns a string when cipher, simplecaptions or
\* integer_labels is set, the empty string when no gram of the caption
\* matched; the shift-ciphered (lemmatised) caption when only shift is set;
\* otherwise a boolean, True exactly when a gram of up to 3 words of the
\* caption is a class name.  No returned string is longer than 76 characters.
\* Checked on the calls filter_preprocess_txt makes.
C14_ReturnContract ==
    (fl_pc \in {"mapped", "skipped"} /\ calls_synset_ds(fl_args)) =>
        LET ds == fl_args.ds_filter
            cipher == ds = <<>> /\ fl_args.ds_cipher
            simplecaptions == ds = <<>> /\ fl_args.simplecaptions
            shift == IF ds # <<>> /\ fl_args.integer_labels THEN 0
                     ELSE fl_args.shift_cipher
            matched == SomeGramMatched(fl_text, ds, simplecaptions)
        IN /\ fl_synset.kind \in {"str", "bool"}
           /\ fl_synset.kind = "str" => Len(fl_synset.str) <= 76
           /\ IF cipher \/ simplecaptions \/ fl_args.integer_labels
              THEN /\ fl_synset.kind = "str"
                   /\ ~matched => fl_synset.str = <<>>
              ELSE IF shift # 0
              THEN /\ fl_synset.kind = "str"
                   /\ fl_args.metacaptions = <<>> =>
                        fl_synset.str
                          = shift_cipher(Join(lemmatized(Split(fl_text, <<" ">>)),
                                              <<" ">>), shift)
              ELSE /\ fl_synset.kind = "bool"
                   /\ fl_synset.flag <=> matched

\* ------------------------------------------------------------ zero_shot_eval
\* the loaders that get_data can put in the data dict for evaluation
Benchmarks ==
    {"imagenet-val", "imagenet-v2", "imagenet-r", "imagenet-s", "imagenet-a",
     "inat2021", "stanfordcars", "flowers", "air", "food", "objectnet",
     "insecta"}

\* line 383: zero_shot_eval goes on only if one of these is in data
GuardedBenchmarks ==
    {"imagenet-val", "imagenet-v2", "imagenet-r", "imagenet-s", "imagenet-a",
     "inat2021", "stanfordcars", "flowers", "food", "objectnet", "insecta"}

\* the two keys each benchmark's block writes to results
result_keys(b) ==
    CASE b = "inat2021" -> {"inat2021-top1", "inat2021-top5"}
      [] b = "stanfordcars" -> {"stanfordcars-top1", "stanfordcars-top5"}
      [] b = "air" -> {"FGVC-aircraft-top1", "FGVC-aircraft-top5"}
      [] b = "food" -> {"food-top1", "food-top5"}
      [] b = "insecta" -> {"insecta-top1", "insecta-top5"}
      [] b = "imagenet-val" -> {"imagenet-zeroshot-val-top1",
                                "imagenet-zeroshot-val-top5"}
      [] b = "imagenet-v2" -> {"imagenetv2-zeroshot-val-top1",
                               "imagenetv2-zeroshot-val-top5"}
      [] b = "imagenet-s" -> {"imagenets-zeroshot-val-top1",
                              "imagenets-zeroshot-val-top5"}
      [] b = "imagenet-r" -> {"imagenetr-zeroshot-val-top1",
                              "imagenetr-zeroshot-val-top5"}
      [] b = "imagenet-a" -> {"imageneta-zeroshot-val-top1",
                              "imageneta-zeroshot-val-top5"}
      [] b = "objectnet" -> {"objectnet-top1", "objectnet-top5"}
      [] OTHER -> {}

\* line 544: the shifts averaged for the robustness figures
ShiftKeys ==
    {"imagenetr-zeroshot-val-top1", "imageneta-zeroshot-val-top1",
     "imagenets-zeroshot-val-top1", "imagenetv2-zeroshot-val-top1"}

\* build_imagenet, lines 288-367: the class names the classifier is built
\* of; "None" is no classifier.
build_imagenet(args, in_type) ==
    IF args.isint THEN "None"
    ELSE IF args.syn_filter \/ args.def_class
         THEN IF in_type \in {"r", "a"} THEN in_type ELSE "imagenet"
    ELSE IF in_type \in {"r", "a", "objectnet"} THEN in_type
    ELSE "imagenet"

\* zero_shot_eval, lines 377-571.  nonzero: the result keys whose value is
\* not 0 (results.get(key) is true).
zero_shot_eval(data, epoch, args, nonzero) ==
    LET nothing == [raised |-> FALSE, results |-> {},
                    scored |-> [b \in Benchmarks |-> "not run"]]
        after_val == IF data \cap {"imagenet-val", "imagenet-v2",
                                   "imagenet-s"} # {}
                     THEN build_imagenet(args, "") ELSE "None"
        after_r == IF "imagenet-r" \in data THEN build_imagenet(args, "r")
                   ELSE after_val
        after_a == IF "imagenet-a" \in data THEN build_imagenet(args, "a")
                   ELSE after_r
        for_objectnet == IF after_a = "None"
                         THEN build_imagenet(args, "objectnet") ELSE after_a
        classifier(b) ==
            CASE b = "inat2021" -> IF args.isint THEN "None" ELSE "inat2021"
              [] b = "stanfordcars" -> "stanfordcars"
              [] b = "air" -> "air"
              [] b = "food" -> "food"
              [] b = "insecta" -> IF args.isint THEN "None" ELSE "insecta"
              [] b \in {"imagenet-val", "imagenet-v2", "imagenet-s"} ->
                    build_imagenet(args, "")
              [] b = "imagenet-r" -> build_imagenet(args, "r")
              [] b = "imagenet-a" -> build_imagenet(args, "a")
              [] b = "objectnet" -> for_objectnet
              [] OTHER -> "not run"
        keys == UNION {result_keys(b) : b \in data}
        robustness ==
            IF "imagenet-zeroshot-val-top1" \in keys \cap nonzero
               /\ ShiftKeys \cap keys \cap nonzero # {}
            THEN {"imagenet-average-robustness",
                  "imagenet-effective-robustness"}
            ELSE {}
    IN IF data \cap GuardedBenchmarks = {} THEN nothing
       ELSE IF args.zeroshot_frequency = 0 THEN nothing
       ELSE IF epoch % args.zeroshot_frequency # 0 /\ epoch # args.epochs
            THEN nothing
       ELSE IF "inat2021" \in data /\ args.caption_subset \notin {"", "insects"}
            THEN [raised |-> TRUE, results |-> {},
                  scored |-> [b \in Benchmarks |-> "not run"]]
       ELSE [raised |-> FALSE, results |-> keys \cup robustness,
             scored |-> [b \in Benchmarks |->
                            IF b \in data THEN classifier(b) ELSE "not run"]]

InitZS ==
    /\ IdleCipher /\ IdleDispatch /\ IdleEpoch /\ IdleGroup
    /\ IdleCount /\ IdleWds /\ IdleFilter /\ IdleTrain /\ IdleResample
    /\ zs_data \in {d \in SUBSET Benchmarks : Cardinality(d) <= MaxLoaders}
    /\ zs_args \in [zeroshot_frequency : 0..MaxFrequency,
                    epochs : 1..MaxEvalEpochs,
                    caption_subset : {"", "insects", "birds"},
                    isint : BOOLEAN, syn_filter : BOOLEAN,
                    def_class : BOOLEAN]
    /\ zs_epoch \in 0..MaxEvalEpochs
    /\ zs_results = {}
    /\ zs_scored = [b \in Benchmarks |-> "not run"]
    /\ zs_pc = "called"

\* evaluate (train.py:351) calls zero_shot_eval
CallZeroShotEval ==
    /\ zs_pc = "called"
    /\ \E nonzero \in SUBSET (({"imagenet-zeroshot-val-top1"} \cup ShiftKeys)
                                \cap UNION {result_keys(b) : b \in zs_data}) :
          LET r == zero_shot_eval(zs_data, zs_epoch, zs_args, nonzero)
          IN /\ zs_pc' = IF r.raised THEN "NotImplementedError" ELSE "returned"
             /\ zs_results' = r.results
             /\ zs_scored' = r.scored
    /\ UNCHANGED <<zs_data, zs_args, zs_epoch>>
    /\ UNCHANGED others_zs

NextZS == CallZeroShotEval

\* the epoch is a zero-shot evaluation epoch: the frequency is positive and
\* the epoch is a multiple of it or the last one
EvaluationEpoch ==
    /\ zs_args.zeroshot_frequency > 0
    /\ \/ zs_epoch % zs_args.zeroshot_frequency = 0
       \/ zs_epoch = zs_args.epochs

\* C3: with an 'air' loader in data, on an evaluation epoch, the results
\* zero_shot_eval returns contain FGVC-aircraft-top1 and FGVC-aircraft-top5,
\* whichever other loaders are present.
C3_AirCovered ==
    (zs_pc = "returned" /\ "air" \in zs_data /\ EvaluationEpoch) =>
        {"FGVC-aircraft-top1", "FGVC-aircraft-top5"} \subseteq zs_results

\* C15: zero_shot_eval returns the empty results and runs no benchmark when
\* args.zeroshot_frequency is 0, or when the epoch is neither a multiple of
\* the frequency nor args.epochs; on the final epoch (epoch = args.epochs)
\* with a non-zero frequency a call that returns has evaluated every
\* benchmark present: its result keys are there and its classifier was run.
C15_Gating ==
    /\ (zs_pc # "called" /\ ~EvaluationEpoch) =>
            /\ zs_pc = "returned"
            /\ zs_results = {}
            /\ \A b \in Benchmarks : zs_scored[b] = "not run"
    /\ (zs_pc = "returned" /\ zs_args.zeroshot_frequency # 0
            /\ zs_epoch = zs_args.epochs) =>
            \A b \in zs_data :
                result_keys(b) # {} =>
                    /\ result_keys(b) \subseteq zs_results
                    /\ zs_scored[b] # "not run"

\* C16: without integer labels, whichever loaders are in data, a call of
\* zero_shot_eval that evaluates ObjectNet scores it with the classifier that
\* build_imagenet gives for in_type 'objectnet', also after ImageNet val, v2,
\* sketch, R or A were evaluated in the same call.
C16_ObjectNetOwnNames ==
    (zs_pc = "returned" /\ ~zs_args.isint
        /\ zs_scored["objectnet"] # "not run") =>
        zs_scored["objectnet"] = build_imagenet(zs_args, "objectnet")

\* ----------------------------------------------------------- train_one_epoch
\* lines 62-103: the loss built for the main loop
select_loss(sim_clr, args) ==
    IF sim_clr THEN "SIMCLRLoss"
    ELSE IF args.integer_labels THEN "IntLoss"
    ELSE IF args.iqe THEN "ClipLossIQE"
    ELSE IF args.alignunif THEN "ClipLossAlignUnif"
    ELSE "ClipLoss"

\* lines 142-165: the gradient cache, or the exception raised
grad_cache(args) ==
    IF ~args.gc THEN [raised |-> FALSE, gc |-> "none"]
    ELSE IF args.horovod THEN [raised |-> TRUE, gc |-> "none"]
    ELSE IF args.precision # "fp32"
         THEN IF args.distributed THEN [raised |-> TRUE, gc |-> "none"]
              ELSE [raised |-> FALSE, gc |-> "fp16=True"]
    ELSE [raised |-> FALSE, gc |-> "fp16=False"]

\* lines 203-234: the forward path of a batch and the loss object called on
\* its output; raise("...") of line 216 is a TypeError.
forward_batch(args, loss) ==
    IF args.sim_clr
        THEN [raised |-> FALSE, forward |-> "two images", loss_fn |-> loss]
    ELSE IF args.integer_labels
        THEN [raised |-> FALSE, forward |-> "visual only", loss_fn |-> loss]
    ELSE IF args.gc
        THEN IF args.alt
             THEN [raised |-> TRUE, forward |-> "none", loss_fn |-> "none"]
             ELSE [raised |-> FALSE, forward |-> "image/text features",
                   loss_fn |-> loss]
    ELSE IF args.alt
        THEN [raised |-> FALSE, forward |-> "model loss", loss_fn |-> "none"]
    ELSE [raised |-> FALSE, forward |-> "image/text features",
          loss_fn |-> loss]

Precisions == {"fp32", "amp"}

InitTrain ==
    /\ IdleCipher /\ IdleDispatch /\ IdleEpoch /\ IdleGroup
    /\ IdleCount /\ IdleWds /\ IdleFilter /\ IdleZS /\ IdleResample
    /\ tr_args \in [sim_clr : BOOLEAN, integer_labels : BOOLEAN,
                    iqe : BOOLEAN, alignunif : BOOLEAN, gc : BOOLEAN,
                    alt : BOOLEAN, horovod : BOOLEAN, precision : Precisions,
                    distributed : BOOLEAN, dry_run : BOOLEAN,
                    ramping : BOOLEAN, tune : BOOLEAN]
    /\ tr_sim_clr \in BOOLEAN
    /\ tr_num_batches \in 1..MaxBatches
    /\ tr_loss = "none" /\ tr_tuned = FALSE /\ tr_gc = "none" /\ tr_i = 0
    /\ tr_batch = NoBatch
    /\ tr_pc = "called"

\* lines 57-165: everything before the main loop
PrepareEpoch ==
    /\ tr_pc = "called"
    /\ tr_loss' = select_loss(tr_sim_clr, tr_args)
    /\ tr_tuned' = tr_args.tune
    /\ tr_gc' = grad_cache(tr_args).gc
    /\ tr_pc' = IF grad_cache(tr_args).raised THEN "NotImplementedError"
                ELSE "loop"
    /\ UNCHANGED <<tr_args, tr_sim_clr, tr_num_batches, tr_i, tr_batch>>
    /\ UNCHANGED others_train

\* lines 172-333: one batch of the main loop
TrainBatch ==
    /\ tr_pc = "loop"
    /\ tr_i < tr_num_batches
    /\ tr_i' = tr_i + 1
    /\ IF tr_args.dry_run
       THEN UNCHANGED <<tr_batch, tr_pc>>
       ELSE LET b == forward_batch(tr_args, tr_loss)
            IN IF b.raised
               THEN tr_pc' = "TypeError" /\ UNCHANGED tr_batch
               ELSE /\ tr_batch' = [forward |-> b.forward,
                                    loss_fn |-> b.loss_fn]
                    /\ UNCHANGED tr_pc
    /\ UNCHANGED <<tr_args, tr_sim_clr, tr_num_batches, tr_loss, tr_tuned,
                   tr_gc>>
    /\ UNCHANGED others_train

\* lines 328-333: the early return of a ramping epoch after a logged batch
TrainRampingReturn ==
    /\ tr_pc = "loop"
    /\ tr_args.ramping /\ ~tr_args.dry_run
    /\ tr_i > 0
    /\ tr_pc' = "returned"
    /\ UNCHANGED <<tr_args, tr_sim_clr, tr_num_batches, tr_loss, tr_tuned,
                   tr_gc, tr_i, tr_batch>>
    /\ UNCHANGED others_train

\* the loader is exhausted: the function returns
TrainReturn ==
    /\ tr_pc = "loop"
    /\ tr_i = tr_num_batches
    /\ tr_pc' = "returned"
    /\ UNCHANGED <<tr_args, tr_sim_clr, tr_num_batches, tr_loss, tr_tuned,
                   tr_gc, tr_i, tr_batch>>
    /\ UNCHANGED others_train

NextTrain == PrepareEpoch \/ TrainBatch \/ TrainRampingReturn \/ TrainReturn

\* the forward path a loss variant belongs to
BelongsTo(loss_fn, forward) ==
    CASE loss_fn = "SIMCLRLoss" -> forward = "two images"
      [] loss_fn = "IntLoss" -> forward = "visual only"
      [] loss_fn \in {"ClipLossIQE", "ClipLossAlignUnif", "ClipLoss"} ->
            forward = "image/text features"
      [] OTHER -> TRUE

\* C5: one loss is built per epoch by the priority SimCLR > integer labels >
\* IQE > align-uniform > CLIP, and every batch's loss is computed on the
\* forward path that belongs to that loss.
C5_LossOnItsForward ==
    tr_pc \in {"loop", "returned"} =>
        /\ tr_loss = select_loss(tr_sim_clr, tr_args)
        /\ BelongsTo(tr_batch.loss_fn, tr_batch.forward)

\* C12: with args.gc, train_one_epoch raises NotImplementedError before any
\* batch of the main loop when args.horovod is set, or when args.precision
\* is not 'fp32' and args.distributed is set; in every other gc configuration
\* a GradCache is built and training proceeds: the main loop runs and no
\* exception ends it.
C12_GcRejected ==
    tr_pc # "called" /\ tr_args.gc =>
        IF \/ tr_args.horovod
           \/ tr_args.precision # "fp32" /\ tr_args.distributed
        THEN tr_pc = "NotImplementedError" /\ tr_i = 0 /\ tr_batch = NoBatch
        ELSE tr_gc # "none" /\ tr_pc \in {"loop", "returned"}

\* ------------------------------------------------------------ specifications
SpecCipher == InitCipher /\ [][NextCipher]_vars
SpecDispatch == InitDispatch /\ [][NextDispatch]_vars
SpecEpoch == InitEpoch /\ [][NextEpoch]_vars
SpecGroup == InitGroup /\ [][NextGroup]_vars
SpecCount == InitCount /\ [][NextCount]_vars
SpecWds == InitWds /\ [][NextWds]_vars
SpecFilter == InitFilter /\ [][NextFilter]_vars
SpecZS == InitZS /\ [][NextZS]_vars
SpecTrain == InitTrain /\ [][NextTrain]_vars
SpecResample == InitResample /\ [][NextResample]_vars

====
